---- MODULE Spec2Model ----
(***************************************************************************)
(* Model of solid-grid-split (src/src/index.tsx, src/src/cursor.ts): the   *)
(* Split container's offset table, its resize engine (dragHandle and the   *)
(* helpers it calls) and the pointer gesture a Handle wires to it.         *)
(*                                                                         *)
(* Numbers.  The engine computes on JavaScript numbers.  They are modelled *)
(* as exact rationals extended with the three IEEE special values the      *)
(* code can produce by dividing by zero: a number is a record [n, d] with  *)
(* d > 0 a rational n/d in lowest terms, and d = 0 one of +Infinity        *)
(* (n = 1), -Infinity (n = -1) and NaN (n = 0).  Rounding is not modelled, *)
(* and zero carries no sign (every zero the engine divides by is a +0:     *)
(* a literal 0, or the difference or product of finite values).            *)
(***************************************************************************)
EXTENDS Integers, Sequences, FiniteSets, TLC

VARIABLES
    children,       \* panes(): the registered tracks in child order, each with its props
    type,           \* config.type: "column" or "row"
    domRect,        \* the domRect signal: undefined until the ResizeObserver reports
    offsets,        \* the offsets signal: element -> number (absent entries read as 0)
    activePanels,   \* the activePanels signal: undefined or <<left, right>>
    gesture,        \* the closure of Handle.onPointerDown and cursor(): listeners, neighbors, totalOverflow, previous
    last,           \* the most recent event and the dragHandle call it made (observation only)
    down,           \* the most recent pointer-down: its handle, the offsets and domRect it found,
                    \* whether an earlier pointer-down started no gesture, and how many calls
                    \* the gesture made, the domRect at its latest call and the sum of the
                    \* deltas cursor delivered to its callback (observation only)
    count           \* events delivered so far, per kind

vars == <<children, type, domRect, offsets, activePanels, gesture, last, down, count>>

(***************************************************************************)
(* JavaScript numbers                                                      *)
(***************************************************************************)

AbsInt(i) == IF i < 0 THEN -i ELSE i

SignInt(i) == IF i < 0 THEN -1 ELSE IF i > 0 THEN 1 ELSE 0

RECURSIVE GCD(_, _)
GCD(a, b) == IF b = 0 THEN a ELSE GCD(b, a % b)

\* n/d in lowest terms with a positive denominator; x/0 is +-Infinity or NaN
Norm(n, d) ==
    IF d = 0 THEN [n |-> SignInt(n), d |-> 0]
    ELSE LET g == GCD(AbsInt(n), AbsInt(d))
             s == IF d < 0 THEN -1 ELSE 1
         IN  [n |-> (s * n) \div g, d |-> (s * d) \div g]

Num(i) == [n |-> i, d |-> 1]
Frac(a, b) == Norm(a, b)
Zero == Num(0)
NaN == [n |-> 0, d |-> 0]
PosInf == [n |-> 1, d |-> 0]
NegInf == [n |-> -1, d |-> 0]

IsNaN(a) == a.d = 0 /\ a.n = 0
IsFinite(a) == a.d # 0

Neg(a) == [n |-> -a.n, d |-> a.d]

\* the sum of two numbers that are not both non-finite, over the least common denominator
AddOver(a, b, g) == Norm(a.n * (b.d \div g) + b.n * (a.d \div g), (a.d \div g) * b.d)

Add(a, b) ==
    IF a.d = 0 /\ b.d = 0
    THEN IF a.n = b.n THEN a ELSE NaN
    ELSE IF a.d = 0 \/ b.d = 0 THEN Norm(a.n * b.d + b.n * a.d, 0)
    ELSE AddOver(a, b, GCD(a.d, b.d))

Sub(a, b) == Add(a, Neg(b))

\* the product of two finite numbers, cancelled crosswise by g = gcd(a.n, b.d) and h = gcd(b.n, a.d)
MulOver(a, b, g, h) ==
    [n |-> (a.n \div g) * (b.n \div h), d |-> (a.d \div h) * (b.d \div g)]

Mul(a, b) ==
    IF a.d = 0 \/ b.d = 0 THEN Norm(a.n * b.n, 0)
    ELSE MulOver(a, b, GCD(AbsInt(a.n), b.d), GCD(AbsInt(b.n), a.d))

Recip(a) == IF a.n < 0 THEN [n |-> -a.d, d |-> -a.n] ELSE [n |-> a.d, d |-> a.n]

Div(a, b) == Mul(a, Recip(b))

Abs(a) == [n |-> AbsInt(a.n), d |-> a.d]

\* a < b; false when either is NaN
Lt(a, b) ==
    /\ ~IsNaN(a)
    /\ ~IsNaN(b)
    /\ IF a.d = 0 /\ b.d = 0 THEN a.n < b.n
       ELSE IF a.d = 0 THEN a.n < 0
       ELSE IF b.d = 0 THEN b.n > 0
       ELSE a.n * b.d < b.n * a.d

Gt(a, b) == Lt(b, a)

Le(a, b) == ~IsNaN(a) /\ ~IsNaN(b) /\ ~Lt(b, a)

\* the truthiness of a number: 0 and NaN are falsy
Truthy(a) == ~IsNaN(a) /\ a.n # 0

\* x || 0
OrZero(a) == IF Truthy(a) THEN a ELSE Zero

\* s.reduce((a, b) => a + b, 0) over the first k entries, and over all of s
RECURSIVE SumTo(_, _)
SumTo(s, k) == IF k = 0 THEN Zero ELSE Add(SumTo(s, k - 1), s[k])

SumSeq(s) == SumTo(s, Len(s))

(***************************************************************************)
(* Size props and the registry                                             *)
(***************************************************************************)

\* an absent min or max prop
NoBound == [set |-> FALSE, unit |-> "px", val |-> Zero]
\* a min or max prop, e.g. Bound("px", Num(100)) for "100px"
Bound(u, v) == [set |-> TRUE, unit |-> u, val |-> v]

\* a Split.Pane and a Split.Handle with their size props; val is parseFloat(size)
Pane(u, v, mn, mx) == [handle |-> FALSE, unit |-> u, val |-> v, min |-> mn, max |-> mx]
Handle(u, v) == [handle |-> TRUE, unit |-> u, val |-> v, min |-> NoBound, max |-> NoBound]

isPercentageSize(u) == u = "pct"
isFractionSize(u) == u = "fr"
isPixelSize(u) == u = "px"

isPixelProps(props) == isPixelSize(props.unit)
isFractionProps(props) == isFractionSize(props.unit)

\* the registered elements are the positions of the child list; element 0 is a
\* Handle that has the context but is not among panes() (nested in a pane)
Elements == 1 .. Len(children)
Stray == 0

getProps(e) == children[e]
isNotHandle(e) == e \in Elements /\ ~children[e].handle

ElementSeq == [i \in 1 .. Len(children) |-> i]

\* the previous sibling, whatever it is
FindLast_PreviousSibling(i) == i

\* panes.slice(0, index).findLast(isNotHandle): 0 stands for undefined
RECURSIVE FindLast(_)
FindLast(i) == IF i = 0 THEN 0 ELSE IF isNotHandle(i) THEN i ELSE FindLast(i - 1)

\* the next sibling, whatever it is
Find_NextSibling(i) == IF i + 1 > Len(children) THEN 0 ELSE i + 1

\* panes.slice(index).find(isNotHandle), from the 1-based position i
RECURSIVE Find(_)
Find(i) == IF i > Len(children) THEN 0 ELSE IF isNotHandle(i) THEN i ELSE Find(i + 1)

\* undefined (<<>>) or <<left, right>>
getNeigboringPanes(handle) ==
    IF handle \notin Elements THEN <<>>
    ELSE IF handle = 1 \/ handle = Len(children) THEN <<>>
    ELSE LET left == FindLast(handle - 1)
             right == Find(handle)
         IN  IF left = 0 \/ right = 0 THEN <<>> ELSE <<left, right>>

(***************************************************************************)
(* Split: sizes in pixels                                                  *)
(***************************************************************************)

\* the size the container had at the pointer-down of the gesture
containerSize_AtPointerDown ==
    IF ~down.domRect.set THEN Zero
    ELSE OrZero(Num(IF type = "column" THEN down.domRect.width ELSE down.domRect.height))

containerSize ==
    IF ~domRect.set THEN Zero
    ELSE OrZero(Num(IF type = "column" THEN domRect.width ELSE domRect.height))

getOffset(off, e) == OrZero(off[e])

\* offset(element, delta)
offset(off, e, delta) == [off EXCEPT ![e] = Sub(OrZero(off[e]), delta)]

getNonFractionPixels(u, v, o) ==
    IF isPercentageSize(u) THEN Mul(Div(Sub(v, o), Num(100)), containerSize)
    ELSE Sub(v, o)

getNonFractionPanePixels(off, e) ==
    IF isFractionProps(getProps(e)) THEN Zero
    ELSE getNonFractionPixels(getProps(e).unit, getProps(e).val, getOffset(off, e))

getFractionPanes == SelectSeq(ElementSeq, LAMBDA e : isFractionProps(getProps(e)))
getNonFractionPanes == SelectSeq(ElementSeq, LAMBDA e : ~isFractionProps(getProps(e)))

getSumOfNonFractionPanePixels(off) ==
    SumSeq([i \in 1 .. Len(getNonFractionPanes) |->
                getNonFractionPanePixels(off, getNonFractionPanes[i])])

getSumOfFractionPanePixels(off) == Sub(containerSize, getSumOfNonFractionPanePixels(off))

\* the sum of the nominal fractions of the fraction tracks
TotalFrUnits == SumSeq([i \in 1 .. Len(getFractionPanes) |-> getProps(getFractionPanes[i]).val])

\* the quotient alone, without the branch for totals below 1
PixelsPerFractionOf_Quotient(sumOfFractionPanePixelSizes, totalFrUnits) ==
    IF totalFrUnits = Zero THEN Zero ELSE Div(sumOfFractionPanePixelSizes, totalFrUnits)

\* the body of getPixelsPerFraction once its two sums are computed
PixelsPerFractionOf(sumOfFractionPanePixelSizes, totalFrUnits) ==
    IF totalFrUnits = Zero THEN Zero
    ELSE IF Lt(totalFrUnits, Num(1))
    THEN LET remainingSpace ==
                 Sub(sumOfFractionPanePixelSizes,
                     Mul(sumOfFractionPanePixelSizes, totalFrUnits))
         IN  Div(sumOfFractionPanePixelSizes,
                 Add(totalFrUnits, Div(remainingSpace, sumOfFractionPanePixelSizes)))
    ELSE Div(sumOfFractionPanePixelSizes, totalFrUnits)

getPixelsPerFraction(off) ==
    PixelsPerFractionOf(getSumOfFractionPanePixels(off), TotalFrUnits)

getPixelSizeOfFractionPane(off, e) ==
    IF ~isFractionProps(getProps(e)) THEN Zero
    ELSE Mul(Sub(getProps(e).val, getOffset(off, e)), getPixelsPerFraction(off))

(***************************************************************************)
(* Split: the resize engine                                                *)
(***************************************************************************)

\* the position of a fraction pane in getFractionPanes()
IndexOfFractionPane(e) == CHOOSE i \in 1 .. Len(getFractionPanes) : getFractionPanes[i] = e

\* returns the offset table after the call
\* the last statements of offsetFractionAndNonFractionPane: the new fractions
\* and the offsets stored for every fraction pane
SetNewOffsets(off, fractionPanesPixelSizes, total, totalFrUnits) ==
    [e \in DOMAIN off |->
        IF isFractionProps(getProps(e))
        THEN Sub(getProps(e).val,
                 Div(Mul(fractionPanesPixelSizes[IndexOfFractionPane(e)], totalFrUnits), total))
        ELSE off[e]]

\* offsetFractionAndNonFractionPane from "fractionPanesPixelSizes[fractionPaneIndex] -= deltaPx"
\* on: off is the table after offset(nonFractionPane, nonPaneOffset)
OffsetFractionPanePixels(off, sizes, fractionPaneIndex, fractionPanePixels, nonFractionPane, nonPaneOffset) ==
    IF Lt(fractionPanePixels, Zero)
    THEN SetNewOffsets(offset(off, nonFractionPane, Neg(nonPaneOffset)),
                       [sizes EXCEPT ![fractionPaneIndex] = Zero],
                       SumSeq([sizes EXCEPT ![fractionPaneIndex] = Zero]), TotalFrUnits)
    ELSE SetNewOffsets(off,
                       [sizes EXCEPT ![fractionPaneIndex] = fractionPanePixels],
                       SumSeq([sizes EXCEPT ![fractionPaneIndex] = fractionPanePixels]),
                       TotalFrUnits)

\* offsetFractionAndNonFractionPane once the pixel sizes of the fraction panes
\* (before offset) and nonPaneOffset are computed
OffsetNonFractionPane(off, sizes, fractionPaneIndex, nonFractionPane, nonPaneOffset, deltaPx) ==
    OffsetFractionPanePixels(offset(off, nonFractionPane, nonPaneOffset), sizes,
                             fractionPaneIndex, Sub(sizes[fractionPaneIndex], deltaPx),
                             nonFractionPane, nonPaneOffset)

\* returns the offset table after the call
offsetFractionAndNonFractionPane(off, fractionPane, nonFractionPane, deltaPx) ==
    OffsetNonFractionPane(
        off,
        [i \in 1 .. Len(getFractionPanes) |-> getPixelSizeOfFractionPane(off, getFractionPanes[i])],
        IndexOfFractionPane(fractionPane),
        nonFractionPane,
        IF isPixelProps(getProps(nonFractionPane)) THEN deltaPx
        ELSE Mul(Div(deltaPx, containerSize), Num(100)),
        deltaPx)

getFractionOverflow(off, e, deltaFr) ==
    IF ~isFractionProps(getProps(e)) THEN Zero
    ELSE LET overflow == Add(Sub(getProps(e).val, getOffset(off, e)), deltaFr)
         IN  IF Lt(overflow, Zero) THEN overflow ELSE Zero

\* getNonFractionOverflow with the min branch negated
NonFractionOverflowOf_MinNegated(props, newSize, realMaxSize, realMinSize) ==
    IF props.max.set /\ Lt(newSize, realMaxSize) THEN Sub(newSize, realMaxSize)
    ELSE IF props.min.set /\ Gt(newSize, realMinSize) THEN Sub(realMinSize, newSize)
    ELSE IF Gt(newSize, Zero) THEN Zero ELSE newSize

\* getNonFractionOverflow once newSize and the resolved bounds are computed
NonFractionOverflowOf(props, newSize, realMaxSize, realMinSize) ==
    IF props.max.set /\ Lt(newSize, realMaxSize) THEN Sub(newSize, realMaxSize)
    ELSE IF props.min.set /\ Gt(newSize, realMinSize) THEN Sub(newSize, realMinSize)
    ELSE IF Gt(newSize, Zero) THEN Zero ELSE newSize

getNonFractionOverflow(off, e, deltaPx) ==
    IF isFractionProps(getProps(e)) THEN Zero
    ELSE NonFractionOverflowOf(
             getProps(e),
             Add(getNonFractionPixels(getProps(e).unit, getProps(e).val, getOffset(off, e)), deltaPx),
             getNonFractionPixels(getProps(e).max.unit, getProps(e).max.val, Zero),
             getNonFractionPixels(getProps(e).min.unit, getProps(e).min.val, Zero))

\* the hypothetical overflow of the left and of the right pane of a call
LeftOverflow(off, left, deltaPx) ==
    IF ~isFractionProps(getProps(left)) THEN getNonFractionOverflow(off, left, deltaPx)
    ELSE Mul(getFractionOverflow(off, left, Div(deltaPx, getPixelsPerFraction(off))),
             getPixelsPerFraction(off))

RightOverflow(off, right, deltaPx) ==
    IF ~isFractionProps(getProps(right)) THEN getNonFractionOverflow(off, right, Neg(deltaPx))
    ELSE Mul(getFractionOverflow(off, right, Neg(Div(deltaPx, getPixelsPerFraction(off)))),
             getPixelsPerFraction(off))

\* "Apply negative overflow to deltaPx"
ClampDelta(deltaPx, leftOverflow, rightOverflow) ==
    IF Truthy(leftOverflow) THEN Sub(deltaPx, leftOverflow)
    ELSE IF Truthy(rightOverflow) THEN Add(deltaPx, rightOverflow)
    ELSE deltaPx

\* the value dragHandle returns: NO_OVERFLOW or a number
NO_OVERFLOW == [sentinel |-> TRUE, val |-> Zero]
Overflow(v) == [sentinel |-> FALSE, val |-> v]

DragReturn(leftOverflow, rightOverflow) ==
    IF ~Truthy(leftOverflow) /\ ~Truthy(rightOverflow) THEN NO_OVERFLOW
    ELSE IF Gt(Abs(leftOverflow), Abs(rightOverflow)) THEN Overflow(leftOverflow)
    ELSE Overflow(Neg(rightOverflow))

\* no early return
IsZeroDelta_Skipped(deltaPx) == FALSE

\* the guard of the first statement of dragHandle
IsZeroDelta(deltaPx) == deltaPx = Zero

\* dragHandle([left, right], deltaPx): the offset table after the call and the value returned
\* the four cases of dragHandle, with the clamped deltaPx and its deltaFr
OffsetPair(off, left, right, deltaPx, deltaFr) ==
    LET leftProps == getProps(left)
        rightProps == getProps(right)
        isLeftFraction == isFractionProps(leftProps)
        isRightFraction == isFractionProps(rightProps)
    IN  IF isLeftFraction /\ isRightFraction
        THEN offset(offset(off, left, deltaFr), right, Neg(deltaFr))
        ELSE IF ~isLeftFraction /\ ~isRightFraction
        THEN offset(offset(off, left,
                           IF isPixelProps(leftProps) THEN deltaPx
                           ELSE Mul(Div(deltaPx, containerSize), Num(100))),
                    right,
                    IF isPixelProps(rightProps) THEN Neg(deltaPx)
                    ELSE Mul(Div(Neg(deltaPx), containerSize), Num(100)))
        ELSE IF isLeftFraction
        THEN offsetFractionAndNonFractionPane(off, left, right, Neg(deltaPx))
        ELSE offsetFractionAndNonFractionPane(off, right, left, deltaPx)

\* dragHandle from "Update deltaFr to reflect the new deltaPx" on
OffsetClamped(off, left, right, deltaPx) ==
    OffsetPair(off, left, right, deltaPx, Div(deltaPx, getPixelsPerFraction(off)))

\* dragHandle once the two hypothetical overflows are computed
DragWithOverflows(off, left, right, delta, leftOverflow, rightOverflow) ==
    [offsets |-> OffsetClamped(off, left, right, ClampDelta(delta, leftOverflow, rightOverflow)),
     ret |-> DragReturn(leftOverflow, rightOverflow)]

\* dragHandle([left, right], deltaPx): the offset table after the call and the value returned
dragHandle(off, left, right, delta) ==
    IF IsZeroDelta(delta) THEN [offsets |-> off, ret |-> NO_OVERFLOW]
    ELSE DragWithOverflows(off, left, right, delta,
                           LeftOverflow(off, left, delta), RightOverflow(off, right, delta))

(***************************************************************************)
(* Split: the grid template                                                *)
(***************************************************************************)

\* A token of the template. props.size, props.min and props.max are the
\* declared strings: a literal token stands for the declared string itself,
\* a computed one for `${parseFloat(props.size) - offset}` and its unit,
\* inside calc() or not.
LiteralSize(props) == [literal |-> TRUE, calc |-> FALSE, unit |-> props.unit, val |-> props.val]
ComputedSize(calc, u, v) == [literal |-> FALSE, calc |-> calc, unit |-> u, val |-> v]

\* a size token written whatever the offset is
TemplateSize_AlwaysComputed(props, off) ==
    ComputedSize(~isFractionProps(props), props.unit, Sub(props.val, off))

\* offset ? <computed> : props.size, for a fraction track and for the others
TemplateSize(props, off) ==
    IF Truthy(off)
    THEN ComputedSize(~isFractionProps(props), props.unit, Sub(props.val, off))
    ELSE LiteralSize(props)

\* the token of one track with max() outside min() when both bounds are set
TemplateToken_MaxOutside(off, e) ==
    LET props == getProps(e)
        unit == TemplateSize(props, getOffset(off, e))
    IN  IF isFractionProps(props) THEN [wrap |-> "none", size |-> unit]
        ELSE IF props.min.set
        THEN IF props.max.set
             THEN [wrap |-> "max(min())", min |-> props.min, max |-> props.max, size |-> unit]
             ELSE [wrap |-> "min()", min |-> props.min, size |-> unit]
        ELSE IF props.max.set
        THEN [wrap |-> "max()", max |-> props.max, size |-> unit]
        ELSE [wrap |-> "none", size |-> unit]

\* the token of one track: the size alone, or inside min(), max() or both
TemplateToken(off, e) ==
    LET props == getProps(e)
        unit == TemplateSize(props, getOffset(off, e))
    IN  IF isFractionProps(props) THEN [wrap |-> "none", size |-> unit]
        ELSE IF props.min.set
        THEN IF props.max.set
             THEN [wrap |-> "min(max())", min |-> props.min, max |-> props.max, size |-> unit]
             ELSE [wrap |-> "min()", min |-> props.min, size |-> unit]
        ELSE IF props.max.set
        THEN [wrap |-> "max()", max |-> props.max, size |-> unit]
        ELSE [wrap |-> "none", size |-> unit]

\* template(): the tokens that join(' ') puts in one string, in child order
template(off) == [e \in 1 .. Len(children) |-> TemplateToken(off, e)]

(***************************************************************************)
(* Bounds and inputs                                                       *)
(***************************************************************************)

MaxDowns == 2       \* pointer-down events per behaviour
MaxMoves == 2       \* mousemove and mouseup events per behaviour
MaxResizes == 1     \* ResizeObserver reports per behaviour
MaxSizes == 1       \* changes of a size prop per behaviour, after its other events

\* pointer positions as <<along the split axis, across it>>
MovePoints == {<<0, 0>>, <<30, 0>>, <<-40, 0>>, <<0, 10>>}
DownPoints == {<<0, 0>>}

\* the size props a parent switches a pane to, as <<child, unit, parseFloat(size)>>
SizeChanges == {<<1, "fr", 1>>}

\* content rects the ResizeObserver reports
Rects == {[width |-> 220, height |-> 300], [width |-> 300, height |-> 220]}

Point(p) == IF type = "column" THEN [x |-> p[1], y |-> p[2]] ELSE [x |-> p[2], y |-> p[1]]

P(u, v) == Pane(u, v, NoBound, NoBound)

\* the containers checked: each a Split type and a child list as JSX declares it
Configs == {
    \* <Pane size="200px"/> <Handle size="10px"/> <Pane size="1fr"/> <Handle size="10px"/> <Pane size="1fr"/>
    [type |-> "column",
     children |-> << P("px", Num(200)), Handle("px", Num(10)), P("fr", Num(1)),
                     Handle("px", Num(10)), P("fr", Num(1)) >>],
    \* <Pane size="50px" min="55px"/> <Handle size="10px"/> <Pane size="50px" min="50px" max="50px"/>
    [type |-> "row",
     children |-> << Pane("px", Num(50), Bound("px", Num(55)), NoBound), Handle("px", Num(10)),
                     Pane("px", Num(50), Bound("px", Num(50)), Bound("px", Num(50))) >>],
    \* <Pane size="50%"/> <Handle size="10px"/> <Pane size="1fr"/>
    [type |-> "column",
     children |-> << P("pct", Num(50)), Handle("px", Num(10)), P("fr", Num(1)) >>],
    \* <Pane size="180px"/> <Handle size="10px"/> <Pane size="1fr"/>
    [type |-> "column",
     children |-> << P("px", Num(180)), Handle("px", Num(10)), P("fr", Num(1)) >>],
    \* <Handle/> <Handle/> <Pane/> <Handle/> <Handle/> <Pane/> <Handle/>, all of the default size 1fr
    [type |-> "row",
     children |-> << Handle("fr", Num(1)), Handle("fr", Num(1)), P("fr", Num(1)),
                     Handle("fr", Num(1)), Handle("fr", Num(1)), P("fr", Num(1)),
                     Handle("fr", Num(1)) >>],
    \* <Pane size="1fr" max="100px"/> <Handle size="10px"/> <Pane size="50%"/>
    [type |-> "row",
     children |-> << Pane("fr", Num(1), NoBound, Bound("px", Num(100))), Handle("px", Num(10)),
                     P("pct", Num(50)) >>],
    \* <Pane size="100px"/> <Handle size="10px"/> <Pane size="0.25fr"/> <Handle size="10px"/> <Pane size="0.25fr"/>
    [type |-> "column",
     children |-> << P("px", Num(100)), Handle("px", Num(10)), P("fr", Frac(1, 4)),
                     Handle("px", Num(10)), P("fr", Frac(1, 4)) >>],
    \* <Pane size="100px"/> <Handle/> <Pane size="1fr"/>: the handle has the default size 1fr
    [type |-> "column",
     children |-> << P("px", Num(100)), Handle("fr", Num(1)), P("fr", Num(1)) >>],
    \* <Split size="100px" max="10%"/> <Handle size="10px"/> <Pane size="50%" max="50px"/>
    [type |-> "column",
     children |-> << Pane("px", Num(100), NoBound, Bound("pct", Num(10))), Handle("px", Num(10)),
                     Pane("pct", Num(50), NoBound, Bound("px", Num(50))) >>],
    \* <Pane size="20px"/> <Handle size="10px"/> <Pane size="50px" max="100px"/>
    [type |-> "column",
     children |-> << P("px", Num(20)), Handle("px", Num(10)),
                     Pane("px", Num(50), NoBound, Bound("px", Num(100))) >>]
}

(***************************************************************************)
(* State                                                                   *)
(***************************************************************************)

Origin == [x |-> Zero, y |-> Zero]

NoGesture ==
    [listening |-> FALSE, neighbors |-> <<>>, totalOverflow |-> Origin,
     previous |-> [x |-> 0, y |-> 0], start |-> [x |-> 0, y |-> 0]]

NoRect == [set |-> FALSE, width |-> 0, height |-> 0]

NoCall == [called |-> FALSE, arg |-> Zero, ret |-> NO_OVERFLOW, neighbors |-> <<>>,
           delta |-> Origin, totalBefore |-> Origin, nth |-> 0, rectBefore |-> NoRect]

Init ==
    /\ \E config \in Configs : children = config.children /\ type = config.type
    /\ domRect = [set |-> FALSE, width |-> 0, height |-> 0]
    /\ offsets = [e \in 1 .. Len(children) |-> Zero]
    /\ activePanels = <<>>
    /\ gesture = NoGesture
    /\ last = [kind |-> "init", before |-> offsets, call |-> NoCall, pane |-> Stray]
    /\ down = [handle |-> Stray, offsets |-> offsets, domRect |-> domRect, afterInert |-> FALSE,
               calls |-> 0, callRect |-> NoRect,
               sumOfDeltas |-> [x |-> 0, y |-> 0]]
    /\ count = [downs |-> 0, moves |-> 0, resizes |-> 0, sizes |-> 0]

(***************************************************************************)
(* Events                                                                  *)
(***************************************************************************)

\* the elements a pointer-down can hit: every Handle that has this Split's context
Handles == {e \in Elements : children[e].handle} \cup {Stray}

\* ResizeObserver callback: setDomRect(entry.contentRect)
Resize(rect) ==
    /\ count.resizes < MaxResizes
    /\ count.sizes = 0
    /\ domRect' = [set |-> TRUE, width |-> rect.width, height |-> rect.height]
    /\ last' = [kind |-> "resize", before |-> offsets, call |-> NoCall, pane |-> Stray]
    /\ count' = [count EXCEPT !.resizes = @ + 1]
    /\ UNCHANGED <<children, type, offsets, activePanels, gesture, down>>

\* Handle.onPointerDown: dragHandleStart, and cursor() when it found neighbors.
\* One mouse pointer: no second pointer-down while the button is held.
PointerDown(handle, p) ==
    /\ count.downs < MaxDowns
    /\ count.sizes = 0
    /\ ~gesture.listening
    /\ LET neighbors == getNeigboringPanes(handle)
       IN  /\ activePanels' = neighbors
           /\ gesture' = IF neighbors = <<>> THEN gesture
                         ELSE [listening |-> TRUE, neighbors |-> neighbors,
                               totalOverflow |-> Origin, previous |-> p, start |-> p]
    /\ last' = [kind |-> "down", before |-> offsets, call |-> NoCall, pane |-> Stray]
    /\ down' = [handle |-> handle, offsets |-> offsets, domRect |-> domRect,
                afterInert |-> count.downs > 0 /\
                              (down.afterInert \/ getNeigboringPanes(down.handle) = <<>>),
                calls |-> 0, callRect |-> NoRect,
               sumOfDeltas |-> [x |-> 0, y |-> 0]]
    /\ count' = [count EXCEPT !.downs = @ + 1]
    /\ UNCHANGED <<children, type, domRect, offsets>>

\* the running total after a call of the gesture's callback
NextTotalOverflow(total, delta, ret) ==
    IF ret.sentinel THEN Origin
    ELSE [x |-> Add(total.x, IF type = "column" THEN delta.x ELSE ret.val),
          y |-> Add(total.y, IF type # "column" THEN delta.y ELSE ret.val)]

\* the value the callback passes to dragHandle
DragArgument(total, delta) ==
    IF type = "column" THEN Add(delta.x, total.x) ELSE Add(delta.y, total.y)

\* a delta measured from the position of the pointer-down
CursorDelta_FromStart(current, previous, start) ==
    [x |-> current.x - start.x, y |-> current.y - start.y]

\* cursor's delta: the position of the event minus the previous position
CursorDelta(current, previous, start) ==
    [x |-> current.x - previous.x, y |-> current.y - previous.y]

\* cursor's onUpdate(event) with the callback Handle.onPointerDown gave it
OnUpdate(p, kind, listening) ==
    LET d == CursorDelta(p, gesture.previous, gesture.start)
        delta == [x |-> Num(d.x), y |-> Num(d.y)]
        arg == DragArgument(gesture.totalOverflow, delta)
    IN  \E res \in {dragHandle(offsets, gesture.neighbors[1], gesture.neighbors[2], arg)} :
        /\ offsets' = res.offsets
        /\ gesture' = [gesture EXCEPT !.previous = p, !.listening = listening,
                          !.totalOverflow = NextTotalOverflow(gesture.totalOverflow, delta, res.ret)]
        /\ last' = [kind |-> kind, before |-> offsets,
                    call |-> [called |-> TRUE, arg |-> arg, ret |-> res.ret,
                              neighbors |-> gesture.neighbors, delta |-> delta,
                              totalBefore |-> gesture.totalOverflow,
                              nth |-> down.calls + 1, rectBefore |-> down.callRect],
                    pane |-> Stray]
        /\ down' = [down EXCEPT !.calls = IF @ = 0 THEN 1 ELSE 2, !.callRect = domRect,
                                !.sumOfDeltas = [x |-> @.x + d.x, y |-> @.y + d.y]]

\* a mousemove on the window while the gesture's listener is attached
MouseMove(p) ==
    /\ count.moves < MaxMoves
    /\ count.sizes = 0
    /\ gesture.listening
    /\ OnUpdate(p, "move", TRUE)
    /\ count' = [count EXCEPT !.moves = @ + 1]
    /\ UNCHANGED <<children, type, domRect, activePanels>>

\* context.isActivePane: the selector over activePanels
isActivePane(e) ==
    isNotHandle(e) /\ \E i \in DOMAIN activePanels : activePanels[i] = e

\* the active panes are left as they are
dragHandleEnd_Skipped == activePanels

\* dragHandleEnd(): the value it gives activePanels, <<>> for undefined
dragHandleEnd == <<>>

\* a mouseup whose handler leaves the listeners attached
MouseUp_KeepsListeners(p) ==
    /\ count.moves < MaxMoves
    /\ count.sizes = 0
    /\ gesture.listening
    /\ OnUpdate(p, "up", TRUE)
    /\ activePanels' = dragHandleEnd
    /\ count' = [count EXCEPT !.moves = @ + 1]
    /\ UNCHANGED <<children, type, domRect>>

\* a mouseup on the window: the listeners are removed, onUpdate runs for the
\* release event, the promise resolves and dragHandleEnd clears activePanels
MouseUp(p) ==
    /\ count.moves < MaxMoves
    /\ count.sizes = 0
    /\ gesture.listening
    /\ OnUpdate(p, "up", FALSE)
    /\ activePanels' = dragHandleEnd
    /\ count' = [count EXCEPT !.moves = @ + 1]
    /\ UNCHANGED <<children, type, domRect>>

\* the parent gives a pane another size prop. Base stored the reactive props
\* object in propsMap, so getProps(pane).size reads the new value. The effect
\* that would reset the offset is set up inside the mapping function of
\* createSignal(mapArray(panes, ...)): the signal only stores the accessor
\* mapArray returns and nothing ever calls it, so the mapping function never
\* runs, no effect exists and no offset is written.
SetSize(e, u, v) ==
    /\ count.sizes < MaxSizes
    /\ e \in Elements
    /\ ~children[e].handle
    /\ ~children[e].min.set /\ ~children[e].max.set
    /\ <<children[e].unit, children[e].val>> # <<u, v>>
    /\ children' = [children EXCEPT ![e] = [@ EXCEPT !.unit = u, !.val = v]]
    /\ last' = [kind |-> "size", before |-> offsets, call |-> NoCall, pane |-> e]
    /\ count' = [count EXCEPT !.sizes = @ + 1]
    /\ UNCHANGED <<type, domRect, offsets, activePanels, gesture, down>>

\* mouse events on the window while no gesture listens: no handler runs
MouseIdle ==
    /\ count.moves < MaxMoves
    /\ count.sizes = 0
    /\ ~gesture.listening
    /\ last' = [kind |-> "idle", before |-> offsets, call |-> NoCall, pane |-> Stray]
    /\ count' = [count EXCEPT !.moves = @ + 1]
    /\ UNCHANGED <<children, type, domRect, offsets, activePanels, gesture, down>>

Next ==
    \/ \E rect \in Rects : Resize(rect)
    \/ \E handle \in Handles, p \in DownPoints : PointerDown(handle, Point(p))
    \/ \E p \in MovePoints : MouseMove(Point(p))
    \/ \E p \in MovePoints : MouseUp(Point(p))
    \/ MouseIdle
    \/ \E c \in SizeChanges : SetSize(c[1], c[2], Num(c[3]))

Spec == Init /\ [][Next]_vars

(***************************************************************************)
(* Observations the claims are stated on                                   *)
(***************************************************************************)

\* the engine's pixel size of a track under an offset table
PixelSize(off, e) ==
    IF isFractionProps(getProps(e)) THEN getPixelSizeOfFractionPane(off, e)
    ELSE getNonFractionPanePixels(off, e)

SumOfPixelSizes(off) == SumSeq([e \in 1 .. Len(children) |-> PixelSize(off, e)])

\* nominal fraction minus offset
EffectiveFraction(off, e) == Sub(getProps(e).val, getOffset(off, e))

NoOffsets == [e \in 1 .. Len(children) |-> Zero]

\* the last event called dragHandle
Called == last.call.called
\* ... on a container that has been measured, with a non-zero size
Measured == domRect.set /\ containerSize # Zero
\* the measured size has not changed since the pointer-down of the gesture
SizeFixed == domRect = down.domRect

Axis(v) == IF type = "column" THEN v.x ELSE v.y

LeftOf(call) == call.neighbors[1]
RightOf(call) == call.neighbors[2]

FractionPaneSet == {e \in Elements : isFractionProps(getProps(e)) /\ ~getProps(e).handle}
NonFractionPaneSet == {e \in Elements : ~isFractionProps(getProps(e)) /\ ~getProps(e).handle}

(***************************************************************************)
(* C1..C10                                                                 *)
(***************************************************************************)

\* C1 (as claimed): after every dragHandle call on a measured container of
\* fixed size whose declared tracks fill it, the engine's pixel sizes of all
\* tracks sum to the measured container size.
C1_Conservation ==
    (Called /\ Measured /\ SizeFixed /\ SumOfPixelSizes(NoOffsets) = containerSize)
        => SumOfPixelSizes(offsets) = containerSize

\* the resolved declared size of a non-fractional pane lies within its min and max
StartsWithinBounds(e) ==
    LET props == getProps(e)
        size == getNonFractionPixels(props.unit, props.val, Zero)
    IN  /\ props.max.set => Le(size, getNonFractionPixels(props.max.unit, props.max.val, Zero))
        /\ props.min.set => Le(getNonFractionPixels(props.min.unit, props.min.val, Zero), size)

\* C2 (as claimed): on a measured container a pixel or percentage pane whose
\* declared size starts within its bounds never has a resolved size above its
\* resolved max nor below its resolved min, after any sequence of drags.
C2_BoundRespect ==
    Measured => \A e \in NonFractionPaneSet :
        StartsWithinBounds(e) =>
            LET props == getProps(e)
                size == getNonFractionPanePixels(offsets, e)
            IN  /\ props.max.set => Le(size, getNonFractionPixels(props.max.unit, props.max.val, Zero))
                /\ props.min.set => Le(getNonFractionPixels(props.min.unit, props.min.val, Zero), size)

\* C3 (as claimed): on a measured container, after any sequence of drags the
\* effective fraction of every fractional pane is at least zero.
C3_FractionNonNegative ==
    Measured => \A e \in FractionPaneSet : Le(Zero, EffectiveFraction(offsets, e))

\* C4 (as claimed): on a measured container the value passed to dragHandle is
\* the pointer delta on the split axis plus the running total; a numeric
\* return is added to the running total of the split axis; the sentinel
\* resets the running total.
C4_OverflowAccumulated ==
    (Called /\ Measured) =>
        /\ last.call.arg = Add(Axis(last.call.delta), Axis(last.call.totalBefore))
        /\ last.call.ret.sentinel => gesture.totalOverflow = Origin
        /\ ~last.call.ret.sentinel =>
              Axis(gesture.totalOverflow) = Add(Axis(last.call.totalBefore), last.call.ret.val)

\* the pixel sizes of the two neighbours of a call
PairSizes(off, call) == <<PixelSize(off, LeftOf(call)), PixelSize(off, RightOf(call))>>

\* the pointer's displacement on the split axis since the pointer-down
Displacement == Num(Axis(gesture.previous) - Axis(gesture.start))

\* C5 (as claimed): after every move of a gesture on a measured container of
\* fixed size the pair's sizes are those one dragHandle call from the state at
\* pointer-down, with the pointer's whole displacement, gives.
C5_NoDrift ==
    (Called /\ Measured /\ SizeFixed) =>
        PairSizes(offsets, last.call) =
            PairSizes(dragHandle(down.offsets, LeftOf(last.call), RightOf(last.call),
                                 Displacement).offsets, last.call)

\* the last call was on a fractional and a non-fractional neighbour
MixedCall ==
    Called /\ isFractionProps(getProps(LeftOf(last.call))) # isFractionProps(getProps(RightOf(last.call)))

\* C6 (as claimed): a drag between a non-fractional and a fractional pane, in
\* a measured container with another fractional pane where every fractional
\* pane has room, changes the pixel size of every fractional pane.
C6_AllFractionPanesResized ==
    (/\ MixedCall /\ Measured /\ offsets # last.before
     /\ Cardinality(FractionPaneSet) > 1
     /\ \A e \in FractionPaneSet : Gt(PixelSize(last.before, e), Zero)) =>
        \A e \in FractionPaneSet : PixelSize(offsets, e) # PixelSize(last.before, e)

\* C7: a dragHandle call with a delta of exactly 0 returns the no-overflow
\* sentinel and leaves every offset as it was.
C7_ZeroDeltaNoop ==
    (Called /\ last.call.arg = Zero) => last.call.ret = NO_OVERFLOW /\ offsets = last.before

\* a zero-delta call late in a gesture that has already moved the panes: the
\* pointer delta and the running total cancel
C7_Witness ==
    Called /\ last.call.arg = Zero /\ Axis(last.call.delta) # Zero /\ offsets # down.offsets

\* a handle the claim calls inert: not among the children, first or last of
\* them, or without a non-handle child before it or after it
Inert(handle) ==
    \/ handle \notin Elements
    \/ handle = 1
    \/ handle = Len(children)
    \/ ~\E e \in Elements : e < handle /\ ~children[e].handle
    \/ ~\E e \in Elements : e > handle /\ ~children[e].handle

\* C8: after a pointer-down on an inert handle no gesture listens, no pane is
\* active and the offsets are those the pointer-down found, until the next
\* pointer-down; a pointer-down on any other handle starts a gesture, also
\* after an inert one.
C8_EdgeHandleNoop ==
    count.downs > 0 =>
        /\ Inert(down.handle) =>
              ~gesture.listening /\ activePanels = <<>> /\ offsets = down.offsets
        /\ (~Inert(down.handle) /\ last.kind = "down") =>
              gesture.listening /\ activePanels # <<>>

\* a drag on a working handle moves panes after an earlier pointer-down on an inert one
C8_Witness ==
    down.afterInert /\ ~Inert(down.handle) /\ Called /\ offsets # down.offsets

\* C9 (as claimed, in its most favourable case): on a measured container of
\* non-zero size no dragHandle call stores a non-finite offset.
C9_OffsetsFinite ==
    Measured => \A e \in Elements : IsFinite(offsets[e])

\* the children strictly between two positions are all handles
OnlyHandlesBetween(a, b) == \A e \in Elements : (a < e /\ e < b) => children[e].handle

\* C10: for a handle that is neither first nor last, the lookup returns the
\* nearest non-handle child on each side when both exist, so two handles next
\* to each other get the same pair; the gesture works on that pair.
C10_NearestPanes ==
    /\ \A h \in Elements :
          (children[h].handle /\ h # 1 /\ h # Len(children) /\ ~Inert(h)) =>
              LET pair == getNeigboringPanes(h)
              IN  /\ pair # <<>>
                  /\ pair[1] < h /\ h < pair[2]
                  /\ ~children[pair[1]].handle /\ ~children[pair[2]].handle
                  /\ OnlyHandlesBetween(pair[1], h) /\ OnlyHandlesBetween(h, pair[2])
                  /\ (h + 1 < Len(children) /\ children[h + 1].handle) =>
                        getNeigboringPanes(h + 1) = pair
    /\ gesture.listening =>
          /\ gesture.neighbors = getNeigboringPanes(down.handle)
          /\ activePanels = gesture.neighbors

\* a gesture started on a handle whose next sibling is a handle too
C10_Witness ==
    /\ gesture.listening
    /\ down.handle \in Elements
    /\ down.handle + 1 < Len(children)
    /\ children[down.handle + 1].handle
    /\ gesture.neighbors = <<down.handle - 1, down.handle + 2>>

(***************************************************************************)
(* C11..C20                                                                *)
(***************************************************************************)

\* C11 (as claimed): after a change of a pane's declared size on a measured
\* container, that pane's offset is zero and every other offset is what it
\* was before the change.
C11_SizeChangeResets ==
    (last.kind = "size" /\ Measured) =>
        /\ offsets[last.pane] = Zero
        /\ \A e \in Elements \ {last.pane} : offsets[e] = last.before[e]

\* a track declared with a fractional size together with a min or a max
FractionWithBounds(e) ==
    isFractionProps(getProps(e)) /\ (getProps(e).min.set \/ getProps(e).max.set)

\* C12 (as claimed): no track declared with a fractional size and a min or a
\* max is registered, so on a measured container none is a neighbour of a
\* dragHandle call.
C12_FractionBoundsRejected ==
    (Called /\ Measured) =>
        ~FractionWithBounds(LeftOf(last.call)) /\ ~FractionWithBounds(RightOf(last.call))

\* C13: the release event calls dragHandle once, with the delta since the
\* last event, then no listener is attached and no pane is active; while no
\* gesture listens no event calls dragHandle or changes an offset, and no
\* pane is active until the next pointer-down starts a gesture.
C13_ReleaseEndsGesture ==
    [][/\ last'.kind = "up" =>
             /\ last'.call.called
             /\ last'.call.neighbors = gesture.neighbors
             /\ last'.call.delta = [x |-> Num(gesture'.previous.x - gesture.previous.x),
                                    y |-> Num(gesture'.previous.y - gesture.previous.y)]
             /\ ~gesture'.listening
             /\ activePanels' = <<>>
       /\ ~gesture.listening =>
             /\ offsets' = offsets
             /\ ~last'.call.called
             /\ ~gesture'.listening => activePanels' = <<>>]_vars

\* mouse events after a release that moved the panes
C13_Witness ==
    /\ last.kind = "idle"
    /\ gesture.neighbors # <<>>
    /\ ~gesture.listening
    /\ offsets # down.offsets

C15_TemplateRoundTrip ==
    offsets = NoOffsets =>
        /\ Len(template(offsets)) = Len(children)
        /\ \A e \in Elements :
              /\ template(offsets)[e].size = LiteralSize(getProps(e))
              /\ (~getProps(e).min.set /\ ~getProps(e).max.set) =>
                    template(offsets)[e] = [wrap |-> "none", size |-> LiteralSize(getProps(e))]

\* a drag brought every offset back to zero
C15_Witness ==
    Measured /\ Called /\ offsets = NoOffsets /\ last.before # NoOffsets

\* the pixels the last call added to its left neighbour
AppliedDelta ==
    Sub(PixelSize(offsets, LeftOf(last.call)), PixelSize(last.before, LeftOf(last.call)))

\* C16 (as claimed): on a measured container a number returned by dragHandle
\* is the requested pixel delta minus the pixel delta the call applied.
C16_ReturnIsUnappliedDelta ==
    (Called /\ Measured /\ ~last.call.ret.sentinel /\ IsFinite(AppliedDelta)) =>
        last.call.ret.val = Sub(last.call.arg, AppliedDelta)

\* the hypothetical overflows the last call computed
LastLeftOverflow == LeftOverflow(last.before, LeftOf(last.call), last.call.arg)
LastRightOverflow == RightOverflow(last.before, RightOf(last.call), last.call.arg)

\* the limit a non-fractional pane runs into with the candidate delta: its
\* resolved max when the max check fires, its resolved min when the min check
\* fires, 0 otherwise
LimitOf(off, e, candidate) ==
    LET props == getProps(e)
        newSize == Add(getNonFractionPanePixels(off, e), candidate)
        realMaxSize == getNonFractionPixels(props.max.unit, props.max.val, Zero)
        realMinSize == getNonFractionPixels(props.min.unit, props.min.val, Zero)
    IN  IF props.max.set /\ Lt(newSize, realMaxSize) THEN realMaxSize
        ELSE IF props.min.set /\ Gt(newSize, realMinSize) THEN realMinSize
        ELSE Zero

\* the pane sits on the limit its overflow came from
OnLimit(e, candidate) ==
    IF isFractionProps(getProps(e)) THEN EffectiveFraction(offsets, e) = Zero
    ELSE getNonFractionPanePixels(offsets, e) = LimitOf(last.before, e, candidate)

\* C17 (as claimed): when exactly one neighbour of a dragHandle call with a
\* non-zero delta on a measured container has a non-zero hypothetical
\* overflow, that pane sits exactly on its limit after the call.
C17_OverflowingPaneOnLimit ==
    (Called /\ Measured /\ ~IsZeroDelta(last.call.arg)) =>
        /\ (Truthy(LastLeftOverflow) /\ ~Truthy(LastRightOverflow)) =>
              OnLimit(LeftOf(last.call), last.call.arg)
        /\ (~Truthy(LastLeftOverflow) /\ Truthy(LastRightOverflow)) =>
              OnLimit(RightOf(last.call), Neg(last.call.arg))

\* C18 (as claimed): in no dragHandle call with a non-zero delta on a measured
\* container are the hypothetical overflow of the left pane and that of the
\* right pane both non-zero.
C18_NoDoubleOverflow ==
    (Called /\ Measured /\ ~IsZeroDelta(last.call.arg)) =>
        ~(Truthy(LastLeftOverflow) /\ Truthy(LastRightOverflow))

\* the new size of non-fractional pane e for a candidate delta, from the
\* offsets before the call, and its resolved bounds
NewSize(e, candidate) == Add(getNonFractionPanePixels(last.before, e), candidate)
ResolvedMax(e) == getNonFractionPixels(getProps(e).max.unit, getProps(e).max.val, Zero)
ResolvedMin(e) == getNonFractionPixels(getProps(e).min.unit, getProps(e).min.val, Zero)
MaxFires(e, n) == getProps(e).max.set /\ Lt(n, ResolvedMax(e))
MinFires(e, n) == ~MaxFires(e, n) /\ getProps(e).min.set /\ Gt(n, ResolvedMin(e))

\* the overflow as the claim states it, and with the min branch as n - min
ClaimedOverflow(e, n) ==
    IF MaxFires(e, n) THEN Sub(n, ResolvedMax(e))
    ELSE IF MinFires(e, n) THEN Sub(ResolvedMin(e), n)
    ELSE IF Le(n, Zero) THEN n ELSE Zero
AmendedOverflow(e, n) ==
    IF MaxFires(e, n) THEN Sub(n, ResolvedMax(e))
    ELSE IF MinFires(e, n) THEN Sub(n, ResolvedMin(e))
    ELSE IF Gt(n, Zero) THEN Zero ELSE n

\* C19 (as claimed): in a dragHandle call with a non-zero delta on a measured
\* container, the hypothetical overflow of a non-fractional neighbour with new
\* size n is n - max if max is set and n < max, otherwise min - n if min is set
\* and n > min, otherwise n if n <= 0, otherwise 0.
C19_NonFractionOverflow ==
    (Called /\ Measured /\ ~IsZeroDelta(last.call.arg)) =>
        /\ ~isFractionProps(getProps(LeftOf(last.call))) =>
               LastLeftOverflow = ClaimedOverflow(LeftOf(last.call), NewSize(LeftOf(last.call), last.call.arg))
        /\ ~isFractionProps(getProps(RightOf(last.call))) =>
               LastRightOverflow = ClaimedOverflow(RightOf(last.call), NewSize(RightOf(last.call), Neg(last.call.arg)))

\* C19 (amended): in a dragHandle call with a non-zero delta, the hypothetical
\* overflow of a non-fractional neighbour with new size n is n - max if max is
\* set and n < max, otherwise n - min if min is set and n > min, otherwise 0
\* if n > 0, otherwise n.
C19_NonFractionOverflowAmended ==
    (Called /\ ~IsZeroDelta(last.call.arg)) =>
        /\ ~isFractionProps(getProps(LeftOf(last.call))) =>
               LastLeftOverflow = AmendedOverflow(LeftOf(last.call), NewSize(LeftOf(last.call), last.call.arg))
        /\ ~isFractionProps(getProps(RightOf(last.call))) =>
               LastRightOverflow = AmendedOverflow(RightOf(last.call), NewSize(RightOf(last.call), Neg(last.call.arg)))

\* a call in which the min branch decides the overflow of the left pane
C19_Witness ==
    /\ Called /\ Measured /\ ~IsZeroDelta(last.call.arg)
    /\ ~isFractionProps(getProps(LeftOf(last.call)))
    /\ MinFires(LeftOf(last.call), NewSize(LeftOf(last.call), last.call.arg))
    /\ LastLeftOverflow = Sub(NewSize(LeftOf(last.call), last.call.arg), ResolvedMin(LeftOf(last.call)))

\* the last call was on two fractional or on two non-fractional neighbours
PairedCall == Called /\ ~MixedCall /\ ~IsZeroDelta(last.call.arg)

\* the change of pane e's size in the last event, converted to pixels
PixelChange(e) == Sub(PixelSize(offsets, e), PixelSize(last.before, e))

\* C20 (as claimed): a dragHandle call with a non-zero delta on two fractional
\* or two non-fractional neighbours of a measured container leaves the offset
\* of every other track unchanged, and the changes of the two neighbours,
\* converted to pixels, are equal in magnitude and opposite in sign.
C20_PairedOffsets ==
    (PairedCall /\ Measured) =>
        /\ \A e \in Elements \ {LeftOf(last.call), RightOf(last.call)} : offsets[e] = last.before[e]
        /\ IsFinite(PixelChange(LeftOf(last.call)))
        /\ PixelChange(LeftOf(last.call)) = Neg(PixelChange(RightOf(last.call)))

(***************************************************************************)
(* C21..C30                                                                *)
(***************************************************************************)

\* the sum of nominal fraction minus offset over the fraction tracks
SumOfEffectiveFractions(off) ==
    SumSeq([i \in 1 .. Len(getFractionPanes) |-> EffectiveFraction(off, getFractionPanes[i])])

\* C21 (as claimed): on a measured container, after any sequence of dragHandle
\* calls with no size change, the effective fractions of all fractional tracks
\* sum to the sum of their nominal fractions.
C21_FractionSumKept ==
    (Measured /\ count.sizes = 0) => SumOfEffectiveFractions(offsets) = TotalFrUnits

HandleSet == {e \in Elements : getProps(e).handle}

\* C22 (as claimed): on a container measured before the gesture began, after
\* any sequence of drags the offset of every handle track is still zero.
C22_HandleOffsetsZero ==
    (Measured /\ down.domRect.set /\ count.sizes = 0) => \A e \in HandleSet : offsets[e] = Zero

\* C23 (as claimed): in a mixed drag with a non-zero delta on a measured
\* container that reports no overflow, the left neighbour's pixel size changes
\* by exactly the requested delta and the right neighbour's by its opposite,
\* whichever of the two is the fractional one.
C23_MixedDragExact ==
    (MixedCall /\ Measured /\ ~IsZeroDelta(last.call.arg) /\ last.call.ret.sentinel) =>
        /\ PixelChange(LeftOf(last.call)) = last.call.arg
        /\ PixelChange(RightOf(last.call)) = Neg(last.call.arg)

\* deltaPx of the last call after "Apply negative overflow to deltaPx", and
\* the same with the sign it has for pane e: negated for the right neighbour
ClampedDelta == ClampDelta(last.call.arg, LastLeftOverflow, LastRightOverflow)
SideDelta(e) == IF e = LeftOf(last.call) THEN ClampedDelta ELSE Neg(ClampedDelta)

NonFractionNeighbours ==
    {e \in {LeftOf(last.call), RightOf(last.call)} : ~isFractionProps(getProps(e))}

\* by how much the last event lowered the stored offset of e: offset(e, delta)
\* stores the previous offset minus delta
OffsetChange(e) == Sub(getOffset(offsets, e), getOffset(last.before, e))

\* a pixel delta in the unit of pane e's offset
NativeDelta(e, d) ==
    IF isPixelProps(getProps(e)) THEN d ELSE Mul(Div(d, containerSize), Num(100))

\* C24 (as claimed): in a dragHandle call with a non-zero delta on a measured
\* container, the clamped delta d changes the offset of a non-fractional
\* neighbour by d in the pane's own unit (d pixels, or d * 100 / container
\* size percentage points) and its resolved pixel size by exactly d, with the
\* sign of its side, in the both-non-fractional and in the mixed case.
C24_NativeUnitOffsets ==
    (Called /\ Measured /\ ~IsZeroDelta(last.call.arg)) =>
        \A e \in NonFractionNeighbours :
            /\ OffsetChange(e) = Neg(NativeDelta(e, SideDelta(e)))
            /\ PixelChange(e) = SideDelta(e)

\* C25 (as claimed): on a measured container whose stored offsets are all
\* finite, after any sequence of drags no pixel or percentage pane has a
\* resolved pixel size below zero.
C25_NonFractionNonNegative ==
    (Measured /\ count.sizes = 0 /\ \A e \in Elements : IsFinite(offsets[e])) =>
        \A e \in NonFractionPaneSet : ~Lt(getNonFractionPanePixels(offsets, e), Zero)

\* the size on the split axis of the rect the ResizeObserver reported last
ReportedSize == Num(IF type = "column" THEN domRect.width ELSE domRect.height)

\* pixel sizes and pixelsPerFraction for a container size cs given explicitly
NonFractionPixelsAt(cs, u, v, o) ==
    IF isPercentageSize(u) THEN Mul(Div(Sub(v, o), Num(100)), cs) ELSE Sub(v, o)

FractionSpaceAt(cs, off) ==
    Sub(cs, SumSeq([i \in 1 .. Len(getNonFractionPanes) |->
                       NonFractionPixelsAt(cs, getProps(getNonFractionPanes[i]).unit,
                                           getProps(getNonFractionPanes[i]).val,
                                           getOffset(off, getNonFractionPanes[i]))]))

PixelsPerFractionAt(cs, off) == PixelsPerFractionOf(FractionSpaceAt(cs, off), TotalFrUnits)

\* the delta of the last call with the sign it has for pane e
SideArg(e) == IF e = LeftOf(last.call) THEN last.call.arg ELSE Neg(last.call.arg)

\* a call of the gesture that applied its whole non-zero delta, made when the
\* observer has reported a non-zero size and every stored offset was finite
WholeDeltaCall ==
    /\ Called /\ ~IsZeroDelta(last.call.arg) /\ last.call.ret.sentinel
    /\ domRect.set /\ ReportedSize # Zero
    /\ \A e \in Elements : IsFinite(last.before[e])

\* C26: every dragHandle call of a gesture is made on the pair of neighbours
\* of the handle pressed at pointer-down, and a call that applies its whole
\* delta uses the size reported last, not the size at pointer-down: between
\* two fractional panes the offsets move by delta / pixelsPerFraction of that
\* size, a percentage neighbour's offset moves by delta * 100 / that size when
\* both neighbours are non-fractional, and no non-fractional neighbour ends
\* under a max resolved against that size.
C26_ResizeDuringGesture ==
    Called =>
        /\ last.call.neighbors = getNeigboringPanes(down.handle)
        /\ (WholeDeltaCall /\ PairedCall) =>
               \A e \in {LeftOf(last.call), RightOf(last.call)} :
                   /\ isFractionProps(getProps(e)) =>
                          OffsetChange(e) =
                              Neg(Div(SideArg(e), PixelsPerFractionAt(ReportedSize, last.before)))
                   /\ isPercentageSize(getProps(e).unit) =>
                          OffsetChange(e) = Neg(Mul(Div(SideArg(e), ReportedSize), Num(100)))
        /\ WholeDeltaCall =>
               \A e \in NonFractionNeighbours :
                   getProps(e).max.set =>
                       ~Lt(Add(NonFractionPixelsAt(ReportedSize, getProps(e).unit, getProps(e).val,
                                                   getOffset(last.before, e)), SideArg(e)),
                           NonFractionPixelsAt(ReportedSize, getProps(e).max.unit,
                                               getProps(e).max.val, Zero))

\* the second call of a gesture, made on another container size than the
\* first one, which had moved the panes
C26_Witness ==
    /\ WholeDeltaCall /\ PairedCall
    /\ last.call.nth = 2
    /\ last.call.rectBefore # domRect
    /\ last.before # down.offsets
    /\ offsets # last.before

\* a pointer-down has started a gesture (the last one may have ended since)
GestureStarted == gesture.neighbors # <<>> /\ getNeigboringPanes(down.handle) # <<>>

\* C27: the deltas cursor has delivered to the callback of a gesture sum, on
\* each axis, to the position of its latest event minus the position of its
\* pointer-down.
C27_DeltasSumToDisplacement ==
    GestureStarted =>
        /\ down.sumOfDeltas.x = gesture.previous.x - gesture.start.x
        /\ down.sumOfDeltas.y = gesture.previous.y - gesture.start.y

\* the second event of a gesture, with a delta other than the displacement
\* since the pointer-down
C27_Witness ==
    /\ GestureStarted /\ Called /\ last.call.nth = 2
    /\ last.call.delta # Origin
    /\ last.call.delta # [x |-> Num(down.sumOfDeltas.x), y |-> Num(down.sumOfDeltas.y)]

\* the fractional neighbour of a mixed call
FractionNeighbour ==
    IF isFractionProps(getProps(LeftOf(last.call))) THEN LeftOf(last.call) ELSE RightOf(last.call)
NonFractionNeighbour ==
    IF isFractionProps(getProps(LeftOf(last.call))) THEN RightOf(last.call) ELSE LeftOf(last.call)

\* the test "fractionPanePixels < 0" of offsetFractionAndNonFractionPane in the last call
FractionPaneWentNegative ==
    /\ MixedCall /\ ~IsZeroDelta(last.call.arg)
    /\ Lt(Add(PixelSize(last.before, FractionNeighbour), SideDelta(FractionNeighbour)), Zero)

\* C28 (as claimed): in a mixed drag on a measured container in which the
\* delta would make the adjacent fractional pane's pixel size negative, the
\* non-fractional neighbour's offset is unchanged by the call, the adjacent
\* fractional pane's effective fraction is 0 after it, and the effective
\* fractions still sum to the nominal total.
C28_NegativeFractionPane ==
    (Measured /\ FractionPaneWentNegative) =>
        /\ offsets[NonFractionNeighbour] = last.before[NonFractionNeighbour]
        /\ EffectiveFraction(offsets, FractionNeighbour) = Zero
        /\ SumOfEffectiveFractions(offsets) = TotalFrUnits

\* C29: isActivePane(e) is true exactly when a gesture is in progress and e is
\* one of the two neighbours found at its pointer-down; it is false for every
\* handle, and for every element while no gesture is in progress.
C29_ActivePanes ==
    \A e \in Elements \cup {Stray} :
        /\ isActivePane(e) <=>
               /\ gesture.listening
               /\ getNeigboringPanes(down.handle) # <<>>
               /\ e \in {getNeigboringPanes(down.handle)[1], getNeigboringPanes(down.handle)[2]}
        /\ (e \in HandleSet \/ e = Stray) => ~isActivePane(e)

\* after the release of a gesture that had two active panes no element is active
C29_Witness ==
    /\ last.kind = "up"
    /\ getNeigboringPanes(down.handle) # <<>>
    /\ \A e \in Elements : ~isActivePane(e)

\* the number a track's token carries when its offset is not zero
OffsetValue(e) == Sub(getProps(e).val, getOffset(offsets, e))

\* C30: for a track whose offset is not zero, a fractional track's token is
\* the number nominal - offset followed by fr, with no wrapper; a
\* non-fractional track's is calc() of declared - offset in the track's own
\* unit, inside min(min, max(max, .)) when both bounds are set, min(min, .)
\* when only min is, max(max, .) when only max is, and bare otherwise.
C30_TemplateWithOffsets ==
    \A e \in Elements :
        Truthy(getOffset(offsets, e)) =>
            /\ template(offsets)[e].size =
                   [literal |-> FALSE, calc |-> ~isFractionSize(getProps(e).unit),
                    unit |-> getProps(e).unit, val |-> OffsetValue(e)]
            /\ isFractionSize(getProps(e).unit) => template(offsets)[e].wrap = "none"
            /\ (~isFractionSize(getProps(e).unit) /\ getProps(e).min.set /\ getProps(e).max.set) =>
                   /\ template(offsets)[e].wrap = "min(max())"
                   /\ template(offsets)[e].min = getProps(e).min
                   /\ template(offsets)[e].max = getProps(e).max
            /\ (~isFractionSize(getProps(e).unit) /\ getProps(e).min.set /\ ~getProps(e).max.set) =>
                   /\ template(offsets)[e].wrap = "min()"
                   /\ template(offsets)[e].min = getProps(e).min
            /\ (~isFractionSize(getProps(e).unit) /\ ~getProps(e).min.set /\ getProps(e).max.set) =>
                   /\ template(offsets)[e].wrap = "max()"
                   /\ template(offsets)[e].max = getProps(e).max
            /\ (~isFractionSize(getProps(e).unit) /\ ~getProps(e).min.set /\ ~getProps(e).max.set) =>
                   template(offsets)[e].wrap = "none"

\* a track with both bounds and a non-zero offset, next to one with only a min
C30_Witness ==
    /\ \E e \in Elements :
           /\ Truthy(getOffset(offsets, e))
           /\ getProps(e).min.set /\ getProps(e).max.set
           /\ template(offsets)[e].wrap = "min(max())"
    /\ \E e \in Elements :
           /\ Truthy(getOffset(offsets, e))
           /\ getProps(e).min.set /\ ~getProps(e).max.set

====
